---------------------------- MODULE Spec2Model ----------------------------
(***************************************************************************)
(* Console first-person maze (ConFPS.cpp): player pose, MovePlayer with    *)
(* its revert-on-collision, the ray march of RenderScene, wall shading,    *)
(* and the minimap compositor of main's frame loop.                        *)
(*                                                                         *)
(* Every `float` of the program is an IEEE-754 binary32 value and every    *)
(* float operation rounds to nearest, ties to even.  A float is modelled   *)
(* as a pair <<m, e>> standing for m * 2^e with 2^23 <= |m| < 2^24, and    *)
(* zero as <<0, 0>>; FAdd, FMul, FDiv and FSqrt round exactly as the       *)
(* hardware does.                                                          *)
(***************************************************************************)
EXTENDS Integers, Sequences, FiniteSets, TLC

-----------------------------------------------------------------------------
(* binary32 arithmetic *)

MantBits == 24

Two(n) == 2 ^ n

Abs(n) == IF n < 0 THEN -n ELSE n

Sgn(n) == IF n < 0 THEN -1 ELSE 1

FZero == <<0, 0>>

\* number of low bits to drop from a magnitude below 2^31 to leave 24
DropBits(mag) ==
    IF mag < Two(24) THEN 0
    ELSE IF mag < Two(25) THEN 1
    ELSE IF mag < Two(26) THEN 2
    ELSE IF mag < Two(27) THEN 3
    ELSE IF mag < Two(28) THEN 4
    ELSE IF mag < Two(29) THEN 5
    ELSE IF mag < Two(30) THEN 6
    ELSE 7

RECURSIVE ScaleUp(_, _)
\* a nonzero magnitude below 2^24 brought into [2^23, 2^24) without loss
ScaleUp(mag, e) ==
    IF mag >= Two(MantBits - 1) THEN <<mag, e>> ELSE ScaleUp(2 * mag, e - 1)

\* round sgn * (mag + t) * 2^e to binary32, where 0 < t < 1 if sticky and
\* t = 0 otherwise (a sticky magnitude always has more than 24 bits)
FRound(sgn, mag, e, sticky) ==
    IF mag = 0 THEN FZero
    ELSE LET k == DropBits(mag) IN
         IF k = 0
         THEN LET n == ScaleUp(mag, e) IN <<sgn * n[1], n[2]>>
         ELSE LET q    == mag \div Two(k)
                  r    == mag % Two(k)
                  half == Two(k - 1)
                  up   == r > half \/ (r = half /\ (sticky \/ q % 2 = 1))
                  q2   == IF up THEN q + 1 ELSE q
              IN  IF q2 = Two(MantBits)
                  THEN <<sgn * Two(MantBits - 1), e + k + 1>>
                  ELSE <<sgn * q2, e + k>>

FNeg(a) == <<-a[1], a[2]>>

\* a + b with |a|'s exponent at least |b|'s, both nonzero
FAddOrdered(a, b) ==
    LET diff == a[2] - b[2] IN
    IF diff <= 6
    THEN LET s == a[1] * Two(diff) + b[1]
         IN  FRound(Sgn(s), Abs(s), b[2], FALSE)
    ELSE LET a8  == Abs(a[1]) * 8
             sh  == diff - 3
             bq  == IF sh >= MantBits THEN 0 ELSE Abs(b[1]) \div Two(sh)
             st  == IF sh >= MantBits THEN TRUE ELSE Abs(b[1]) % Two(sh) /= 0
             mag == IF Sgn(a[1]) = Sgn(b[1]) THEN a8 + bq
                    ELSE a8 - bq - (IF st THEN 1 ELSE 0)
         IN  FRound(Sgn(a[1]), mag, a[2] - 3, st)

FAdd(a, b) ==
    IF a[1] = 0 THEN b
    ELSE IF b[1] = 0 THEN a
    ELSE IF a[2] >= b[2] THEN FAddOrdered(a, b)
    ELSE FAddOrdered(b, a)

FSub(a, b) == FAdd(a, FNeg(b))

FMul(a, b) ==
    IF a[1] = 0 \/ b[1] = 0 THEN FZero
    ELSE LET ma  == Abs(a[1])
             mb  == Abs(b[1])
             a1  == ma \div 4096
             a0  == ma % 4096
             b1  == mb \div 4096
             b0  == mb % 4096
             mid == a1 * b0 + a0 * b1
             low == a0 * b0 + (mid % 4096) * 4096
             L   == low % Two(24)
             H   == a1 * b1 + mid \div 4096 + low \div Two(24)
         IN  FRound(Sgn(a[1]) * Sgn(b[1]), H * 8 + L \div Two(21),
                    a[2] + b[2] + 21, L % Two(21) /= 0)

\* a / b for nonzero b: 26 quotient bits by long division, then rounded
FDiv(a, b) ==
    IF a[1] = 0 THEN FZero
    ELSE LET ma == Abs(a[1])
             mb == Abs(b[1])
             q0 == ma \div mb
             r0 == ma % mb
             q1 == q0 * 64 + (r0 * 64) \div mb
             r1 == (r0 * 64) % mb
             q2 == q1 * 64 + (r1 * 64) \div mb
             r2 == (r1 * 64) % mb
             q3 == q2 * 64 + (r2 * 64) \div mb
             r3 == (r2 * 64) % mb
             q4 == q3 * 64 + (r3 * 64) \div mb
             r4 == (r3 * 64) % mb
             q5 == q4 * 4 + (r4 * 4) \div mb
             r5 == (r4 * 4) % mb
         IN  FRound(Sgn(a[1]) * Sgn(b[1]), q5, a[2] - b[2] - 26, r5 /= 0)

FLt(a, b) ==
    IF a[1] = 0 THEN b[1] > 0
    ELSE IF b[1] = 0 THEN a[1] < 0
    ELSE IF a[1] < 0 /\ b[1] > 0 THEN TRUE
    ELSE IF a[1] > 0 /\ b[1] < 0 THEN FALSE
    ELSE IF a[1] > 0 THEN a[2] < b[2] \/ (a[2] = b[2] /\ a[1] < b[1])
    ELSE a[2] > b[2] \/ (a[2] = b[2] /\ a[1] < b[1])

FLe(a, b) == a = b \/ FLt(a, b)

\* (int)f: truncation toward zero
FToInt(a) ==
    IF a[2] >= 0 THEN a[1] * Two(a[2])
    ELSE IF -a[2] >= MantBits THEN 0
    ELSE Sgn(a[1]) * (Abs(a[1]) \div Two(-a[2]))

\* (float)n for |n| < 2^24
IntToF(n) == FRound(Sgn(n), Abs(n), 0, FALSE)

RECURSIVE SqrtDigits(_, _, _, _)
\* digit-by-digit square root of n * 4^13: the pairs of bits of n from pair i
\* down, then 13 pairs of zeros; returns <<root, remainder>>
SqrtDigits(n, i, root, rem) ==
    IF i < -13 THEN <<root, rem>>
    ELSE LET pair  == IF i >= 0 THEN (n \div Two(2 * i)) % 4 ELSE 0
             rem2  == rem * 4 + pair
             trial == 4 * root + 1
         IN  IF rem2 >= trial
             THEN SqrtDigits(n, i - 1, 2 * root + 1, rem2 - trial)
             ELSE SqrtDigits(n, i - 1, 2 * root, rem2)

\* sqrtf(a) for a >= 0 (correctly rounded, as IEEE-754 requires)
FSqrt(a) ==
    IF a[1] = 0 THEN FZero
    ELSE LET odd == a[2] % 2 /= 0
             n   == IF odd THEN 2 * a[1] ELSE a[1]
             e   == IF odd THEN a[2] - 1 ELSE a[2]
             rr  == SqrtDigits(n, 12, 0, 0)
         IN  FRound(1, rr[1], (e \div 2) - 13, rr[2] /= 0)

\* fmodf(a, b) for b > 0 and |a| < 64 * b: exact, with the sign of a
FMod(a, b) ==
    IF FLt(<<Abs(a[1]), a[2]>>, b) THEN a
    ELSE LET emin == IF a[2] < b[2] THEN a[2] ELSE b[2]
             A    == Abs(a[1]) * Two(a[2] - emin)
             B    == b[1] * Two(b[2] - emin)
         IN  FRound(Sgn(a[1]), A % B, emin, FALSE)

-----------------------------------------------------------------------------
(* program constants *)

nScreenWidth == 120

nScreenHeight == 40

nMapHeight == 16

nMapWidth == 16

\* the float literal 3.14159f
fPi == <<13176784, -22>>

fFOV == FDiv(fPi, IntToF(4))

fDepth == IntToF(16)

fSpeed == IntToF(5)

\* 0.8f
fTurnSpeed == <<13421773, -24>>

\* the ray march's step, 0.1f
fStep == <<13421773, -27>>

\* 3.14159f / 2, the strafe offset
fHalfPi == FDiv(fPi, IntToF(2))

\* 2 * 3.14159f, the modulus of the minimap's heading
fTwoPi == FMul(IntToF(2), fPi)

\* the map, row by row; map[i + 1] is the C++ map[i]
map ==
    <<"#","#","#","#","#","#","#","#","#","#","#","#","#","#","#","#",
      "#",".",".",".",".",".",".",".",".",".",".",".",".",".",".","#",
      "#","#","#","#",".",".",".","#","#",".",".","#","#",".",".","#",
      "#",".",".",".",".",".",".",".",".",".",".",".",".",".",".","#",
      "#",".",".",".",".",".",".",".",".",".",".",".",".",".",".","#",
      "#",".",".",".",".",".",".",".",".",".","#",".",".",".",".","#",
      "#",".",".",".",".",".",".",".",".",".",".",".",".",".",".","#",
      "#",".",".",".",".","#","#","#",".",".",".",".","#",".",".","#",
      "#",".",".",".",".",".",".",".",".",".",".",".",".",".",".","#",
      "#","#","#","#",".",".",".",".",".",".",".",".",".",".",".","#",
      "#",".",".",".",".",".",".",".",".",".",".",".",".",".",".","#",
      "#",".",".",".",".",".",".",".",".",".",".",".",".",".",".","#",
      "#",".",".",".",".",".",".",".","#","#","#","#","#","#","#","#",
      "#",".",".",".",".",".",".",".",".",".",".",".",".",".",".","#",
      "#",".",".",".",".",".",".",".",".",".",".",".",".",".",".","#",
      "#","#","#","#","#","#","#","#","#","#","#","#","#","#","#","#">>

\* what reading map[i] can yield: the cell for 0 <= i < size(), the
\* terminating L'\0' for i = size(), and anything at all beyond (operator[]
\* is undefined there, and a negative int index converts to a huge size_t)
MapRead(i) ==
    IF i >= 0 /\ i < Len(map) THEN {map[i + 1]}
    ELSE IF i = Len(map) THEN {"NUL"}
    ELSE {"#", ".", "crash"}

MapReadDefined(i) == i >= 0 /\ i <= Len(map)

-----------------------------------------------------------------------------
(* sinf and cosf: rows <<angle, sinf(angle), cosf(angle)>>, the correctly  *)
(* rounded binary32 sine and cosine of every angle the runs below use (a   *)
(* C library may differ from them in the last bit)                         *)

SinCosRows ==
    {<<<<-13299278, -22>>, <<15675643, -29>>, <<-16770063, -24>>>>,
     <<<<-11545656, -22>>, <<-12722666, -25>>, <<-15524446, -24>>>>,
     <<<<-11518204, -22>>, <<-12925610, -25>>, <<-15482478, -24>>>>,
     <<<<-11490753, -22>>, <<-13127992, -25>>, <<-15439849, -24>>>>,
     <<<<-11463301, -22>>, <<-13329819, -25>>, <<-15396557, -24>>>>,
     <<<<-11435849, -22>>, <<-13531075, -25>>, <<-15352605, -24>>>>,
     <<<<-11408398, -22>>, <<-13731744, -25>>, <<-15307997, -24>>>>,
     <<<<-11380946, -22>>, <<-13931832, -25>>, <<-15262732, -24>>>>,
     <<<<-11353495, -22>>, <<-14131316, -25>>, <<-15216815, -24>>>>,
     <<<<-11326043, -22>>, <<-14330202, -25>>, <<-15170244, -24>>>>,
     <<<<-11298591, -22>>, <<-14528474, -25>>, <<-15123023, -24>>>>,
     <<<<-11271140, -22>>, <<-14726117, -25>>, <<-15075157, -24>>>>,
     <<<<-11243688, -22>>, <<-14923136, -25>>, <<-15026642, -24>>>>,
     <<<<-11216236, -22>>, <<-15119516, -25>>, <<-14977484, -24>>>>,
     <<<<-11188785, -22>>, <<-15315241, -25>>, <<-14927687, -24>>>>,
     <<<<-11161333, -22>>, <<-15510317, -25>>, <<-14877248, -24>>>>,
     <<<<-11133882, -22>>, <<-15704721, -25>>, <<-14826173, -24>>>>,
     <<<<-11106430, -22>>, <<-15898460, -25>>, <<-14774462, -24>>>>,
     <<<<-11078978, -22>>, <<-16091518, -25>>, <<-14722117, -24>>>>,
     <<<<-11051527, -22>>, <<-16283879, -25>>, <<-14669144, -24>>>>,
     <<<<-11024075, -22>>, <<-16475550, -25>>, <<-14615541, -24>>>>,
     <<<<-10996623, -22>>, <<-16666515, -25>>, <<-14561312, -24>>>>,
     <<<<-10969172, -22>>, <<-8428380, -24>>, <<-14506460, -24>>>>,
     <<<<-10941720, -22>>, <<-8523144, -24>>, <<-14450986, -24>>>>,
     <<<<-10914268, -22>>, <<-8617544, -24>>, <<-14394892, -24>>>>,
     <<<<-10886817, -22>>, <<-8711571, -24>>, <<-14338184, -24>>>>,
     <<<<-10859365, -22>>, <<-8805228, -24>>, <<-14280859, -24>>>>,
     <<<<-10831914, -22>>, <<-8898504, -24>>, <<-14222925, -24>>>>,
     <<<<-10804462, -22>>, <<-8991403, -24>>, <<-14164380, -24>>>>,
     <<<<-10782696, -22>>, <<-9064786, -24>>, <<-14117529, -24>>>>,
     <<<<-10777010, -22>>, <<-9083916, -24>>, <<-14105227, -24>>>>,
     <<<<-10749559, -22>>, <<-9176038, -24>>, <<-14045473, -24>>>>,
     <<<<-10722107, -22>>, <<-9267769, -24>>, <<-13985115, -24>>>>,
     <<<<-10694655, -22>>, <<-9359103, -24>>, <<-13924158, -24>>>>,
     <<<<-10667204, -22>>, <<-9450033, -24>>, <<-13862606, -24>>>>,
     <<<<-10639752, -22>>, <<-9540562, -24>>, <<-13800458, -24>>>>,
     <<<<-10612300, -22>>, <<-9630682, -24>>, <<-13737720, -24>>>>,
     <<<<-10584849, -22>>, <<-9720386, -24>>, <<-13674395, -24>>>>,
     <<<<-10557397, -22>>, <<-9809677, -24>>, <<-13610482, -24>>>>,
     <<<<-10529946, -22>>, <<-9898545, -24>>, <<-13545988, -24>>>>,
     <<<<-10502494, -22>>, <<-9986991, -24>>, <<-13480912, -24>>>>,
     <<<<-10475042, -22>>, <<-10075010, -24>>, <<-13415258, -24>>>>,
     <<<<-10447591, -22>>, <<-10162594, -24>>, <<-13349032, -24>>>>,
     <<<<-10420139, -22>>, <<-10249746, -24>>, <<-13282232, -24>>>>,
     <<<<-10392687, -22>>, <<-10336459, -24>>, <<-13214862, -24>>>>,
     <<<<-10365236, -22>>, <<-10422726, -24>>, <<-13146929, -24>>>>,
     <<<<-10337784, -22>>, <<-10508550, -24>>, <<-13078431, -24>>>>,
     <<<<-10310332, -22>>, <<-10593924, -24>>, <<-13009372, -24>>>>,
     <<<<-10282881, -22>>, <<-10678840, -24>>, <<-12939758, -24>>>>,
     <<<<-10255429, -22>>, <<-10763302, -24>>, <<-12869588, -24>>>>,
     <<<<-10227978, -22>>, <<-10847301, -24>>, <<-12798869, -24>>>>,
     <<<<-10200526, -22>>, <<-10930837, -24>>, <<-12727599, -24>>>>,
     <<<<-10173074, -22>>, <<-11013905, -24>>, <<-12655784, -24>>>>,
     <<<<-10153550, -22>>, <<-11072697, -24>>, <<-12604379, -24>>>>,
     <<<<-10145623, -22>>, <<-11096499, -24>>, <<-12583429, -24>>>>,
     <<<<-10118171, -22>>, <<-11178620, -24>>, <<-12510533, -24>>>>,
     <<<<-10090720, -22>>, <<-11260259, -24>>, <<-12437103, -24>>>>,
     <<<<-10066330, -22>>, <<-11332391, -24>>, <<-12371415, -24>>>>,
     <<<<-10063268, -22>>, <<-11341419, -24>>, <<-12363138, -24>>>>,
     <<<<-10035816, -22>>, <<-11422093, -24>>, <<-12288644, -24>>>>,
     <<<<-10008364, -22>>, <<-11502278, -24>>, <<-12213623, -24>>>>,
     <<<<-9980913, -22>>, <<-11581967, -24>>, <<-12138081, -24>>>>,
     <<<<-9953461, -22>>, <<-11661163, -24>>, <<-12062017, -24>>>>,
     <<<<-9943835, -22>>, <<-11688815, -24>>, <<-12035223, -24>>>>,
     <<<<-9926010, -22>>, <<-11739856, -24>>, <<-11985439, -24>>>>,
     <<<<-9898558, -22>>, <<-11818050, -24>>, <<-11908345, -24>>>>,
     <<<<-9871106, -22>>, <<-11895737, -24>>, <<-11830740, -24>>>>,
     <<<<-9843655, -22>>, <<-11972912, -24>>, <<-11752632, -24>>>>,
     <<<<-9816203, -22>>, <<-12049577, -24>>, <<-11674017, -24>>>>,
     <<<<-9788751, -22>>, <<-12125725, -24>>, <<-11594902, -24>>>>,
     <<<<-9761300, -22>>, <<-12201352, -24>>, <<-11515294, -24>>>>,
     <<<<-9734120, -22>>, <<-12275717, -24>>, <<-11435985, -24>>>>,
     <<<<-9733848, -22>>, <<-12276458, -24>>, <<-11435189, -24>>>>,
     <<<<-9706396, -22>>, <<-12351039, -24>>, <<-11354594, -24>>>>,
     <<<<-9678945, -22>>, <<-12425088, -24>>, <<-11273516, -24>>>>,
     <<<<-9651493, -22>>, <<-12498607, -24>>, <<-11191952, -24>>>>,
     <<<<-9624042, -22>>, <<-12571588, -24>>, <<-11109912, -24>>>>,
     <<<<-9596590, -22>>, <<-12644033, -24>>, <<-11027393, -24>>>>,
     <<<<-9569138, -22>>, <<-12715937, -24>>, <<-10944401, -24>>>>,
     <<<<-9541687, -22>>, <<-12787294, -24>>, <<-10860944, -24>>>>,
     <<<<-9514235, -22>>, <<-12858105, -24>>, <<-10777018, -24>>>>,
     <<<<-9486784, -22>>, <<-12928363, -24>>, <<-10692634, -24>>>>,
     <<<<-9459332, -22>>, <<-12998069, -24>>, <<-10607788, -24>>>>,
     <<<<-9431880, -22>>, <<-13067219, -24>>, <<-10522489, -24>>>>,
     <<<<-9404429, -22>>, <<-13135807, -24>>, <<-10436741, -24>>>>,
     <<<<-9376977, -22>>, <<-13203834, -24>>, <<-10350543, -24>>>>,
     <<<<-9349525, -22>>, <<-13271296, -24>>, <<-10263902, -24>>>>,
     <<<<-9322074, -22>>, <<-13338186, -24>>, <<-10176825, -24>>>>,
     <<<<-9294622, -22>>, <<-13404508, -24>>, <<-10089308, -24>>>>,
     <<<<-9267170, -22>>, <<-13470256, -24>>, <<-10001359, -24>>>>,
     <<<<-9239719, -22>>, <<-13535424, -24>>, <<-9912985, -24>>>>,
     <<<<-9212267, -22>>, <<-13600015, -24>>, <<-9824183, -24>>>>,
     <<<<-9184816, -22>>, <<-13664021, -24>>, <<-9734964, -24>>>>,
     <<<<-9157364, -22>>, <<-13727443, -24>>, <<-9645324, -24>>>>,
     <<<<-9129912, -22>>, <<-13790278, -24>>, <<-9555271, -24>>>>,
     <<<<-9104974, -22>>, <<-13846847, -24>>, <<-9473110, -24>>>>,
     <<<<-9102460, -22>>, <<-13852522, -24>>, <<-9464809, -24>>>>,
     <<<<-9075009, -22>>, <<-13914171, -24>>, <<-9373944, -24>>>>,
     <<<<-9047558, -22>>, <<-13975223, -24>>, <<-9282678, -24>>>>,
     <<<<-9020106, -22>>, <<-14035679, -24>>, <<-9191011, -24>>>>,
     <<<<-8992654, -22>>, <<-14095534, -24>>, <<-9098951, -24>>>>,
     <<<<-8965202, -22>>, <<-14154785, -24>>, <<-9006500, -24>>>>,
     <<<<-8937751, -22>>, <<-14213427, -24>>, <<-8913667, -24>>>>,
     <<<<-8910299, -22>>, <<-14271463, -24>>, <<-8820449, -24>>>>,
     <<<<-8882848, -22>>, <<-14328885, -24>>, <<-8726857, -24>>>>,
     <<<<-8855396, -22>>, <<-14385696, -24>>, <<-8632887, -24>>>>,
     <<<<-8827944, -22>>, <<-14441890, -24>>, <<-8538547, -24>>>>,
     <<<<-8800493, -22>>, <<-14497464, -24>>, <<-8443845, -24>>>>,
     <<<<-8773041, -22>>, <<-14552418, -24>>, <<-16697557, -25>>>>,
     <<<<-8745589, -22>>, <<-14606749, -24>>, <<-16506707, -25>>>>,
     <<<<-8718138, -22>>, <<-14660453, -24>>, <<-16315158, -25>>>>,
     <<<<-8690686, -22>>, <<-14713531, -24>>, <<-16122902, -25>>>>,
     <<<<-8663234, -22>>, <<-14765978, -24>>, <<-15929956, -25>>>>,
     <<<<-8635783, -22>>, <<-14817791, -24>>, <<-15736335, -25>>>>,
     <<<<-8608331, -22>>, <<-14868970, -24>>, <<-15542033, -25>>>>,
     <<<<-8580880, -22>>, <<-14919512, -24>>, <<-15347071, -25>>>>,
     <<<<-8553428, -22>>, <<-14969416, -24>>, <<-15151446, -25>>>>,
     <<<<-8525976, -22>>, <<-15018678, -24>>, <<-14955171, -25>>>>,
     <<<<-8498525, -22>>, <<-15067296, -24>>, <<-14758263, -25>>>>,
     <<<<-8471073, -22>>, <<-15115269, -24>>, <<-14560715, -25>>>>,
     <<<<-8443622, -22>>, <<-15162594, -24>>, <<-14362551, -25>>>>,
     <<<<-8416170, -22>>, <<-15209271, -24>>, <<-14163764, -25>>>>,
     <<<<-8388718, -22>>, <<-15255296, -24>>, <<-13964371, -25>>>>,
     <<<<-16722533, -23>>, <<-15300667, -24>>, <<-13764383, -25>>>>,
     <<<<-16667630, -23>>, <<-15345383, -24>>, <<-13563806, -25>>>>,
     <<<<-16612726, -23>>, <<-15389442, -24>>, <<-13362643, -25>>>>,
     <<<<-16557823, -23>>, <<-15432841, -24>>, <<-13160912, -25>>>>,
     <<<<-16532227, -23>>, <<-15452848, -24>>, <<-13066671, -25>>>>,
     <<<<-15273936, -23>>, <<-16255658, -24>>, <<-16602916, -26>>>>,
     <<<<-15099495, -23>>, <<-16338452, -24>>, <<-15247279, -26>>>>,
     <<<<-15099494, -23>>, <<-16338452, -24>>, <<-15247271, -26>>>>,
     <<<<-14854506, -23>>, <<-16442793, -24>>, <<-13332393, -26>>>>,
     <<<<-14435075, -23>>, <<-16588829, -24>>, <<-10028538, -26>>>>,
     <<<<-14015645, -23>>, <<-16693402, -24>>, <<-13399248, -27>>>>,
     <<<<-13841204, -23>>, <<-16724620, -24>>, <<-10619439, -27>>>>,
     <<<<-13841203, -23>>, <<-16724620, -24>>, <<-10619423, -27>>>>,
     <<<<-13596214, -23>>, <<-16756250, -24>>, <<-13415828, -28>>>>,
     <<<<-13421773, -23>>, <<-16770062, -24>>, <<-15676387, -29>>>>,
     <<<<-13176784, -23>>, <<-8388608, -23>>, <<11149847, -43>>>>,
     <<<<-13002342, -23>>, <<-16773588, -24>>, <<11164164, -29>>>>,
     <<<<-12757354, -23>>, <<-16756248, -24>>, <<13416508, -28>>>>,
     <<<<-12337923, -23>>, <<-16693398, -24>>, <<13399587, -27>>>>,
     <<<<-11918493, -23>>, <<-16588823, -24>>, <<10028706, -26>>>>,
     <<<<-11744052, -23>>, <<-16533103, -24>>, <<11406296, -26>>>>,
     <<<<-11499062, -23>>, <<-16442784, -24>>, <<13332560, -26>>>>,
     <<<<-11079632, -23>>, <<-16255648, -24>>, <<16603081, -26>>>>,
     <<<<-10066330, -23>>, <<-15637021, -24>>, <<12158707, -25>>>>,
     <<<<-9821341, -23>>, <<-15452831, -24>>, <<13066750, -25>>>>,
     <<<<-8808039, -23>>, <<-14552947, -24>>, <<16695712, -25>>>>,
     <<<<-8808038, -23>>, <<-14552946, -24>>, <<16695715, -25>>>>,
     <<<<-8388608, -23>>, <<-14117540, -24>>, <<9064768, -24>>>>,
     <<<<-16287238, -24>>, <<-13846822, -24>>, <<9473147, -24>>>>,
     <<<<-15938356, -24>>, <<-13646848, -24>>, <<9759022, -24>>>>,
     <<<<-15938355, -24>>, <<-13646848, -24>>, <<9759023, -24>>>>,
     <<<<-15099495, -24>>, <<-13142045, -24>>, <<10428884, -24>>>>,
     <<<<-14260634, -24>>, <<-12604394, -24>>, <<11072679, -24>>>>,
     <<<<-13770656, -24>>, <<-12275688, -24>>, <<11436016, -24>>>>,
     <<<<-13421773, -24>>, <<-12035238, -24>>, <<11688799, -24>>>>,
     <<<<-12931795, -24>>, <<-11688784, -24>>, <<12035253, -24>>>>,
     <<<<-12582912, -24>>, <<-11436001, -24>>, <<12275702, -24>>>>,
     <<<<-12092934, -24>>, <<-11072664, -24>>, <<12604408, -24>>>>,
     <<<<-11744051, -24>>, <<-10808179, -24>>, <<12831923, -24>>>>,
     <<<<-10905191, -24>>, <<-10153344, -24>>, <<13356069, -24>>>>,
     <<<<-10905190, -24>>, <<-10153343, -24>>, <<13356070, -24>>>>,
     <<<<-10066330, -24>>, <<-9473129, -24>>, <<13846834, -24>>>>,
     <<<<-9576352, -24>>, <<-9064751, -24>>, <<14117552, -24>>>>,
     <<<<-9227469, -24>>, <<-8769237, -24>>, <<14302988, -24>>>>,
     <<<<-15099495, -25>>, <<-14595022, -25>>, <<15106995, -24>>>>,
     <<<<-15099494, -25>>, <<-14595021, -25>>, <<15106996, -24>>>>,
     <<<<-13421773, -25>>, <<-13066711, -25>>, <<15452839, -24>>>>,
     <<<<-13176784, -25>>, <<-12840715, -25>>, <<15500129, -24>>>>,
     <<<<-12957171, -25>>, <<-12637546, -25>>, <<15541817, -24>>>>,
     <<<<-12737558, -25>>, <<-12433835, -25>>, <<15582840, -24>>>>,
     <<<<-12517945, -25>>, <<-12229591, -25>>, <<15623196, -24>>>>,
     <<<<-12298332, -25>>, <<-12024824, -25>>, <<15662882, -24>>>>,
     <<<<-12078719, -25>>, <<-11819541, -25>>, <<15701898, -24>>>>,
     <<<<-11859106, -25>>, <<-11613753, -25>>, <<15740240, -24>>>>,
     <<<<-11744052, -25>>, <<-11505742, -25>>, <<15760059, -24>>>>,
     <<<<-11639492, -25>>, <<-11407465, -25>>, <<15777909, -24>>>>,
     <<<<-11419879, -25>>, <<-11200690, -25>>, <<15814902, -24>>>>,
     <<<<-11200266, -25>>, <<-10993436, -25>>, <<15851217, -24>>>>,
     <<<<-10980653, -25>>, <<-10785710, -25>>, <<15886853, -24>>>>,
     <<<<-10761040, -25>>, <<-10577522, -25>>, <<15921808, -24>>>>,
     <<<<-10541427, -25>>, <<-10368881, -25>>, <<15956082, -24>>>>,
     <<<<-10321814, -25>>, <<-10159796, -25>>, <<15989672, -24>>>>,
     <<<<-10102201, -25>>, <<-9950276, -25>>, <<16022577, -24>>>>,
     <<<<-10066330, -25>>, <<-9916013, -25>>, <<16027887, -24>>>>,
     <<<<-9882588, -25>>, <<-9740330, -25>>, <<16054796, -24>>>>,
     <<<<-9662975, -25>>, <<-9529966, -25>>, <<16086327, -24>>>>,
     <<<<-9443362, -25>>, <<-9319194, -25>>, <<16117169, -24>>>>,
     <<<<-9223749, -25>>, <<-9108023, -25>>, <<16147320, -24>>>>,
     <<<<-9004136, -25>>, <<-8896462, -25>>, <<16176780, -24>>>>,
     <<<<-8784522, -25>>, <<-8684519, -25>>, <<16205547, -24>>>>,
     <<<<-8564910, -25>>, <<-8472205, -25>>, <<16233620, -24>>>>,
     <<<<-8388608, -25>>, <<-16602999, -26>>, <<16255653, -24>>>>,
     <<<<-16690593, -26>>, <<-16519055, -26>>, <<16260997, -24>>>>,
     <<<<-16251367, -26>>, <<-16092993, -26>>, <<16287678, -24>>>>,
     <<<<-15812141, -26>>, <<-15666241, -26>>, <<16313661, -24>>>>,
     <<<<-15372915, -26>>, <<-15238818, -26>>, <<16338945, -24>>>>,
     <<<<-14933688, -26>>, <<-14810742, -26>>, <<16363529, -24>>>>,
     <<<<-14494463, -26>>, <<-14382033, -26>>, <<16387413, -24>>>>,
     <<<<-14055236, -26>>, <<-13952706, -26>>, <<16410594, -24>>>>,
     <<<<-13616010, -26>>, <<-13522782, -26>>, <<16433073, -24>>>>,
     <<<<-13421773, -26>>, <<-13332473, -26>>, <<16442789, -24>>>>,
     <<<<-13421772, -26>>, <<-13332472, -26>>, <<16442789, -24>>>>,
     <<<<-13176784, -26>>, <<-13092279, -26>>, <<16454847, -24>>>>,
     <<<<-12737558, -26>>, <<-12661216, -26>>, <<16475917, -24>>>>,
     <<<<-12298331, -26>>, <<-12229609, -26>>, <<16496280, -24>>>>,
     <<<<-11859105, -26>>, <<-11797479, -26>>, <<16515938, -24>>>>,
     <<<<-11419880, -26>>, <<-11364844, -26>>, <<16534887, -24>>>>,
     <<<<-10980654, -26>>, <<-10931722, -26>>, <<16553129, -24>>>>,
     <<<<-10541427, -26>>, <<-10498131, -26>>, <<16570661, -24>>>>,
     <<<<-10102201, -26>>, <<-10064090, -26>>, <<16587483, -24>>>>,
     <<<<-10066330, -26>>, <<-10028624, -26>>, <<16588826, -24>>>>,
     <<<<-9662975, -26>>, <<-9629619, -26>>, <<16603595, -24>>>>,
     <<<<-9223750, -26>>, <<-9194736, -26>>, <<16618996, -24>>>>,
     <<<<-8784522, -26>>, <<-8759457, -26>>, <<16633685, -24>>>>,
     <<<<-16690592, -27>>, <<-16647608, -27>>, <<16647661, -24>>>>,
     <<<<-15812140, -27>>, <<-15775589, -27>>, <<16660924, -24>>>>,
     <<<<-14933688, -27>>, <<-14902894, -27>>, <<16673474, -24>>>>,
     <<<<-14055236, -27>>, <<-14029561, -27>>, <<16685309, -24>>>>,
     <<<<-13421773, -27>>, <<-13399415, -27>>, <<16693400, -24>>>>,
     <<<<-13176784, -27>>, <<-13155627, -27>>, <<16696429, -24>>>>,
     <<<<-12298332, -27>>, <<-12281130, -27>>, <<16706834, -24>>>>,
     <<<<-11419880, -27>>, <<-11406106, -27>>, <<16716524, -24>>>>,
     <<<<-10541428, -27>>, <<-10530594, -27>>, <<16725498, -24>>>>,
     <<<<-9662976, -27>>, <<-9654631, -27>>, <<16733755, -24>>>>,
     <<<<-8784524, -27>>, <<-8778254, -27>>, <<16741295, -24>>>>,
     <<<<-15812136, -28>>, <<-15802993, -28>>, <<16748118, -24>>>>,
     <<<<-14055232, -28>>, <<-14048811, -28>>, <<16754223, -24>>>>,
     <<<<-13421776, -28>>, <<-13416184, -28>>, <<16756249, -24>>>>,
     <<<<-13421773, -28>>, <<-13416181, -28>>, <<16756249, -24>>>>,
     <<<<-13421772, -28>>, <<-13416180, -28>>, <<16756249, -24>>>>,
     <<<<-12298336, -28>>, <<-12294034, -28>>, <<16759611, -24>>>>,
     <<<<-10541432, -28>>, <<-10538723, -28>>, <<16764281, -24>>>>,
     <<<<-8784520, -28>>, <<-8782952, -28>>, <<16768233, -24>>>>,
     <<<<-15679296, -29>>, <<-15677067, -29>>, <<16770062, -24>>>>,
     <<<<-14055232, -29>>, <<-14053627, -29>>, <<16771467, -24>>>>,
     <<<<-10541424, -29>>, <<-10540747, -29>>, <<16773982, -24>>>>,
     <<<<-14055232, -30>>, <<-14054831, -30>>, <<16775779, -24>>>>,
     <<<<-14055232, -31>>, <<-14055132, -31>>, <<16776857, -24>>>>,
     <<<<0, 0>>, <<0, 0>>, <<8388608, -23>>>>,
     <<<<14055232, -31>>, <<14055132, -31>>, <<16776857, -24>>>>,
     <<<<14055232, -30>>, <<14054831, -30>>, <<16775779, -24>>>>,
     <<<<10541424, -29>>, <<10540747, -29>>, <<16773982, -24>>>>,
     <<<<14055248, -29>>, <<14053643, -29>>, <<16771467, -24>>>>,
     <<<<15679296, -29>>, <<15677067, -29>>, <<16770062, -24>>>>,
     <<<<8784528, -28>>, <<8782960, -28>>, <<16768233, -24>>>>,
     <<<<10541432, -28>>, <<10538723, -28>>, <<16764281, -24>>>>,
     <<<<12298336, -28>>, <<12294034, -28>>, <<16759611, -24>>>>,
     <<<<13421772, -28>>, <<13416180, -28>>, <<16756249, -24>>>>,
     <<<<13421773, -28>>, <<13416181, -28>>, <<16756249, -24>>>>,
     <<<<13421776, -28>>, <<13416184, -28>>, <<16756249, -24>>>>,
     <<<<14055232, -28>>, <<14048811, -28>>, <<16754223, -24>>>>,
     <<<<15812136, -28>>, <<15802993, -28>>, <<16748118, -24>>>>,
     <<<<8784520, -27>>, <<8778250, -27>>, <<16741295, -24>>>>,
     <<<<9662972, -27>>, <<9654627, -27>>, <<16733755, -24>>>>,
     <<<<10541428, -27>>, <<10530594, -27>>, <<16725498, -24>>>>,
     <<<<11419880, -27>>, <<11406106, -27>>, <<16716524, -24>>>>,
     <<<<12298332, -27>>, <<12281130, -27>>, <<16706834, -24>>>>,
     <<<<13176784, -27>>, <<13155627, -27>>, <<16696429, -24>>>>,
     <<<<13421773, -27>>, <<13399415, -27>>, <<16693400, -24>>>>,
     <<<<13421774, -27>>, <<13399416, -27>>, <<16693400, -24>>>>,
     <<<<14055236, -27>>, <<14029561, -27>>, <<16685309, -24>>>>,
     <<<<14933688, -27>>, <<14902894, -27>>, <<16673474, -24>>>>,
     <<<<15812136, -27>>, <<15775585, -27>>, <<16660924, -24>>>>,
     <<<<16690592, -27>>, <<16647608, -27>>, <<16647661, -24>>>>,
     <<<<8784524, -26>>, <<8759459, -26>>, <<16633685, -24>>>>,
     <<<<9223748, -26>>, <<9194734, -26>>, <<16618996, -24>>>>,
     <<<<9662976, -26>>, <<9629620, -26>>, <<16603595, -24>>>>,
     <<<<10066330, -26>>, <<10028624, -26>>, <<16588826, -24>>>>,
     <<<<10102200, -26>>, <<10064089, -26>>, <<16587483, -24>>>>,
     <<<<10541428, -26>>, <<10498132, -26>>, <<16570661, -24>>>>,
     <<<<10980652, -26>>, <<10931720, -26>>, <<16553129, -24>>>>,
     <<<<11419880, -26>>, <<11364844, -26>>, <<16534887, -24>>>>,
     <<<<11859108, -26>>, <<11797482, -26>>, <<16515937, -24>>>>,
     <<<<12298332, -26>>, <<12229610, -26>>, <<16496280, -24>>>>,
     <<<<12737560, -26>>, <<12661218, -26>>, <<16475917, -24>>>>,
     <<<<13176784, -26>>, <<13092279, -26>>, <<16454847, -24>>>>,
     <<<<13421772, -26>>, <<13332472, -26>>, <<16442789, -24>>>>,
     <<<<13421773, -26>>, <<13332473, -26>>, <<16442789, -24>>>>,
     <<<<13616008, -26>>, <<13522780, -26>>, <<16433073, -24>>>>,
     <<<<14055236, -26>>, <<13952706, -26>>, <<16410594, -24>>>>,
     <<<<14494460, -26>>, <<14382030, -26>>, <<16387413, -24>>>>,
     <<<<14933688, -26>>, <<14810742, -26>>, <<16363529, -24>>>>,
     <<<<15372916, -26>>, <<15238819, -26>>, <<16338945, -24>>>>,
     <<<<15812140, -26>>, <<15666240, -26>>, <<16313661, -24>>>>,
     <<<<16251368, -26>>, <<16092994, -26>>, <<16287678, -24>>>>,
     <<<<16690592, -26>>, <<16519054, -26>>, <<16260997, -24>>>>,
     <<<<8388608, -25>>, <<16602999, -26>>, <<16255653, -24>>>>,
     <<<<8564910, -25>>, <<8472205, -25>>, <<16233620, -24>>>>,
     <<<<8784522, -25>>, <<8684519, -25>>, <<16205547, -24>>>>,
     <<<<9004136, -25>>, <<8896462, -25>>, <<16176780, -24>>>>,
     <<<<9223750, -25>>, <<9108024, -25>>, <<16147320, -24>>>>,
     <<<<9443362, -25>>, <<9319194, -25>>, <<16117169, -24>>>>,
     <<<<9662976, -25>>, <<9529967, -25>>, <<16086327, -24>>>>,
     <<<<9882588, -25>>, <<9740330, -25>>, <<16054796, -24>>>>,
     <<<<10102200, -25>>, <<9950275, -25>>, <<16022577, -24>>>>,
     <<<<10321814, -25>>, <<10159796, -25>>, <<15989672, -24>>>>,
     <<<<10541426, -25>>, <<10368880, -25>>, <<15956082, -24>>>>,
     <<<<10761040, -25>>, <<10577522, -25>>, <<15921808, -24>>>>,
     <<<<10980654, -25>>, <<10785711, -25>>, <<15886853, -24>>>>,
     <<<<11200266, -25>>, <<10993436, -25>>, <<15851217, -24>>>>,
     <<<<11419880, -25>>, <<11200691, -25>>, <<15814901, -24>>>>,
     <<<<11639492, -25>>, <<11407465, -25>>, <<15777909, -24>>>>,
     <<<<11744051, -25>>, <<11505741, -25>>, <<15760059, -24>>>>,
     <<<<11859106, -25>>, <<11613753, -25>>, <<15740240, -24>>>>,
     <<<<12078718, -25>>, <<11819541, -25>>, <<15701898, -24>>>>,
     <<<<12298332, -25>>, <<12024824, -25>>, <<15662882, -24>>>>,
     <<<<12517946, -25>>, <<12229592, -25>>, <<15623196, -24>>>>,
     <<<<12737558, -25>>, <<12433835, -25>>, <<15582840, -24>>>>,
     <<<<12957172, -25>>, <<12637547, -25>>, <<15541817, -24>>>>,
     <<<<13421773, -25>>, <<13066711, -25>>, <<15452839, -24>>>>,
     <<<<13421774, -25>>, <<13066712, -25>>, <<15452839, -24>>>>,
     <<<<9227469, -24>>, <<8769237, -24>>, <<14302988, -24>>>>,
     <<<<9576352, -24>>, <<9064751, -24>>, <<14117552, -24>>>>,
     <<<<10066330, -24>>, <<9473129, -24>>, <<13846834, -24>>>>,
     <<<<10188824, -24>>, <<9573974, -24>>, <<13777300, -24>>>>,
     <<<<10298631, -24>>, <<9663941, -24>>, <<13714344, -24>>>>,
     <<<<10408437, -24>>, <<9753493, -24>>, <<13650800, -24>>>>,
     <<<<10518244, -24>>, <<9842628, -24>>, <<13586672, -24>>>>,
     <<<<10628050, -24>>, <<9931341, -24>>, <<13521962, -24>>>>,
     <<<<10737857, -24>>, <<10019629, -24>>, <<13456672, -24>>>>,
     <<<<10847663, -24>>, <<10107487, -24>>, <<13390806, -24>>>>,
     <<<<10905191, -24>>, <<10153344, -24>>, <<13356069, -24>>>>,
     <<<<10957470, -24>>, <<10194913, -24>>, <<13324366, -24>>>>,
     <<<<11067276, -24>>, <<10281901, -24>>, <<13257356, -24>>>>,
     <<<<11177083, -24>>, <<10368450, -24>>, <<13189777, -24>>>>,
     <<<<11286889, -24>>, <<10454553, -24>>, <<13121635, -24>>>>,
     <<<<11396696, -24>>, <<10540210, -24>>, <<13052929, -24>>>>,
     <<<<11506502, -24>>, <<10625414, -24>>, <<12983665, -24>>>>,
     <<<<11616309, -24>>, <<10710164, -24>>, <<12913844, -24>>>>,
     <<<<11726116, -24>>, <<10794456, -24>>, <<12843469, -24>>>>,
     <<<<11744051, -24>>, <<10808179, -24>>, <<12831923, -24>>>>,
     <<<<11835922, -24>>, <<10878284, -24>>, <<12772546, -24>>>>,
     <<<<11945729, -24>>, <<10961646, -24>>, <<12701074, -24>>>>,
     <<<<12055535, -24>>, <<11044539, -24>>, <<12629059, -24>>>>,
     <<<<12092934, -24>>, <<11072664, -24>>, <<12604408, -24>>>>,
     <<<<12165342, -24>>, <<11126959, -24>>, <<12556503, -24>>>>,
     <<<<12275148, -24>>, <<11208902, -24>>, <<12483409, -24>>>>,
     <<<<12384955, -24>>, <<11290365, -24>>, <<12409780, -24>>>>,
     <<<<12494761, -24>>, <<11371344, -24>>, <<12335620, -24>>>>,
     <<<<12582912, -24>>, <<11436001, -24>>, <<12275702, -24>>>>,
     <<<<12604568, -24>>, <<11451837, -24>>, <<12260930, -24>>>>,
     <<<<12714374, -24>>, <<11531838, -24>>, <<12185717, -24>>>>,
     <<<<12824181, -24>>, <<11611346, -24>>, <<12109980, -24>>>>,
     <<<<12931795, -24>>, <<11688784, -24>>, <<12035253, -24>>>>,
     <<<<12933987, -24>>, <<11690356, -24>>, <<12033726, -24>>>>,
     <<<<13043794, -24>>, <<11768866, -24>>, <<11956955, -24>>>>,
     <<<<13153600, -24>>, <<11846871, -24>>, <<11879673, -24>>>>,
     <<<<13263407, -24>>, <<11924369, -24>>, <<11801881, -24>>>>,
     <<<<13373214, -24>>, <<12001356, -24>>, <<11723584, -24>>>>,
     <<<<13421773, -24>>, <<12035238, -24>>, <<11688799, -24>>>>,
     <<<<13483020, -24>>, <<12077829, -24>>, <<11644785, -24>>>>,
     <<<<13592826, -24>>, <<12153784, -24>>, <<11565488, -24>>>>,
     <<<<13702633, -24>>, <<12229220, -24>>, <<11485694, -24>>>>,
     <<<<13770656, -24>>, <<12275688, -24>>, <<11436016, -24>>>>,
     <<<<13812440, -24>>, <<12304131, -24>>, <<11405408, -24>>>>,
     <<<<13922246, -24>>, <<12378515, -24>>, <<11324634, -24>>>>,
     <<<<14032052, -24>>, <<12452368, -24>>, <<11243376, -24>>>>,
     <<<<14141859, -24>>, <<12525689, -24>>, <<11161635, -24>>>>,
     <<<<14251666, -24>>, <<12598473, -24>>, <<11079415, -24>>>>,
     <<<<14260634, -24>>, <<12604394, -24>>, <<11072679, -24>>>>,
     <<<<14361472, -24>>, <<12670717, -24>>, <<10996722, -24>>>>,
     <<<<14471278, -24>>, <<12742418, -24>>, <<10913558, -24>>>>,
     <<<<14581086, -24>>, <<12813575, -24>>, <<10829925, -24>>>>,
     <<<<14690892, -24>>, <<12884181, -24>>, <<10745830, -24>>>>,
     <<<<14800698, -24>>, <<12954236, -24>>, <<10661274, -24>>>>,
     <<<<14910505, -24>>, <<13023736, -24>>, <<10576260, -24>>>>,
     <<<<15020312, -24>>, <<13092678, -24>>, <<10490794, -24>>>>,
     <<<<15130118, -24>>, <<13161059, -24>>, <<10404879, -24>>>>,
     <<<<15239924, -24>>, <<13228876, -24>>, <<10318518, -24>>>>,
     <<<<15349731, -24>>, <<13296127, -24>>, <<10231715, -24>>>>,
     <<<<15459538, -24>>, <<13362808, -24>>, <<10144473, -24>>>>,
     <<<<15569344, -24>>, <<13428917, -24>>, <<10056798, -24>>>>,
     <<<<15679150, -24>>, <<13494450, -24>>, <<9968691, -24>>>>,
     <<<<15788958, -24>>, <<13559406, -24>>, <<9880156, -24>>>>,
     <<<<15898764, -24>>, <<13623780, -24>>, <<9791200, -24>>>>,
     <<<<15938355, -24>>, <<13646848, -24>>, <<9759023, -24>>>>,
     <<<<16008570, -24>>, <<13687571, -24>>, <<9701824, -24>>>>,
     <<<<16118376, -24>>, <<13750775, -24>>, <<9612032, -24>>>>,
     <<<<16228184, -24>>, <<13813391, -24>>, <<9521827, -24>>>>,
     <<<<16287238, -24>>, <<13846822, -24>>, <<9473147, -24>>>>,
     <<<<16337990, -24>>, <<13875415, -24>>, <<9431216, -24>>>>,
     <<<<16447796, -24>>, <<13936844, -24>>, <<9340201, -24>>>>,
     <<<<16557603, -24>>, <<13997677, -24>>, <<9248785, -24>>>>,
     <<<<16667410, -24>>, <<14057910, -24>>, <<9156972, -24>>>>,
     <<<<8388608, -23>>, <<14117540, -24>>, <<9064768, -24>>>>,
     <<<<8443511, -23>>, <<14176566, -24>>, <<8972176, -24>>>>,
     <<<<8498414, -23>>, <<14234984, -24>>, <<8879200, -24>>>>,
     <<<<8553318, -23>>, <<14292794, -24>>, <<8785842, -24>>>>,
     <<<<8608221, -23>>, <<14349990, -24>>, <<8692109, -24>>>>,
     <<<<8663124, -23>>, <<14406572, -24>>, <<8598003, -24>>>>,
     <<<<8718028, -23>>, <<14462538, -24>>, <<8503528, -24>>>>,
     <<<<8772931, -23>>, <<14517883, -24>>, <<8408690, -24>>>>,
     <<<<8827834, -23>>, <<14572606, -24>>, <<16626983, -25>>>>,
     <<<<8882737, -23>>, <<14626705, -24>>, <<16435874, -25>>>>,
     <<<<8937640, -23>>, <<14680177, -24>>, <<16244061, -25>>>>,
     <<<<8992544, -23>>, <<14733021, -24>>, <<16051549, -25>>>>,
     <<<<9047447, -23>>, <<14785234, -24>>, <<15858353, -25>>>>,
     <<<<9102350, -23>>, <<14836813, -24>>, <<15664478, -25>>>>,
     <<<<9157254, -23>>, <<14887757, -24>>, <<15469928, -25>>>>,
     <<<<9212157, -23>>, <<14938063, -24>>, <<15274719, -25>>>>,
     <<<<9267060, -23>>, <<14987729, -24>>, <<15078855, -25>>>>,
     <<<<9321964, -23>>, <<15036753, -24>>, <<14882342, -25>>>>,
     <<<<9376866, -23>>, <<15085132, -24>>, <<14685199, -25>>>>,
     <<<<9431770, -23>>, <<15132866, -24>>, <<14487420, -25>>>>,
     <<<<9486674, -23>>, <<15179952, -24>>, <<14289019, -25>>>>,
     <<<<9541576, -23>>, <<15226387, -24>>, <<14090014, -25>>>>,
     <<<<9596480, -23>>, <<15272170, -24>>, <<13890399, -25>>>>,
     <<<<9651383, -23>>, <<15317299, -24>>, <<13690191, -25>>>>,
     <<<<9706286, -23>>, <<15361771, -24>>, <<13489398, -25>>>>,
     <<<<9761190, -23>>, <<15405586, -24>>, <<13288023, -25>>>>,
     <<<<9816093, -23>>, <<15448741, -24>>, <<13086082, -25>>>>,
     <<<<9821341, -23>>, <<15452831, -24>>, <<13066750, -25>>>>,
     <<<<9870996, -23>>, <<15491233, -24>>, <<12883581, -25>>>>,
     <<<<9925900, -23>>, <<15533063, -24>>, <<12680524, -25>>>>,
     <<<<9980803, -23>>, <<15574227, -24>>, <<12476928, -25>>>>,
     <<<<10035706, -23>>, <<15614724, -24>>, <<12272797, -25>>>>,
     <<<<10090609, -23>>, <<15654551, -24>>, <<12068140, -25>>>>,
     <<<<10145512, -23>>, <<15693708, -24>>, <<11862967, -25>>>>,
     <<<<10200416, -23>>, <<15732194, -24>>, <<11657282, -25>>>>,
     <<<<10255319, -23>>, <<15770005, -24>>, <<11451101, -25>>>>,
     <<<<10310222, -23>>, <<15807140, -24>>, <<11244429, -25>>>>,
     <<<<10365126, -23>>, <<15843599, -24>>, <<11037272, -25>>>>,
     <<<<10420029, -23>>, <<15879379, -24>>, <<10829646, -25>>>>,
     <<<<10474932, -23>>, <<15914478, -24>>, <<10621556, -25>>>>,
     <<<<10529836, -23>>, <<15948896, -24>>, <<10413008, -25>>>>,
     <<<<10584738, -23>>, <<15982630, -24>>, <<10204021, -25>>>>,
     <<<<10639642, -23>>, <<16015681, -24>>, <<9994589, -25>>>>,
     <<<<10694546, -23>>, <<16048045, -24>>, <<9784729, -25>>>>,
     <<<<10749448, -23>>, <<16079721, -24>>, <<9574457, -25>>>>,
     <<<<10804352, -23>>, <<16110709, -24>>, <<9363768, -25>>>>,
     <<<<10859255, -23>>, <<16141006, -24>>, <<9152682, -25>>>>,
     <<<<10914158, -23>>, <<16170612, -24>>, <<8941203, -25>>>>,
     <<<<10969062, -23>>, <<16199526, -24>>, <<8729337, -25>>>>,
     <<<<11023964, -23>>, <<16227745, -24>>, <<8517106, -25>>>>,
     <<<<11078868, -23>>, <<16255270, -24>>, <<16609003, -26>>>>,
     <<<<11079632, -23>>, <<16255648, -24>>, <<16603081, -26>>>>,
     <<<<11133772, -23>>, <<16282098, -24>>, <<16183083, -26>>>>,
     <<<<11188674, -23>>, <<16308228, -24>>, <<15756485, -26>>>>,
     <<<<11243578, -23>>, <<16333660, -24>>, <<15329197, -26>>>>,
     <<<<11298481, -23>>, <<16358392, -24>>, <<14901260, -26>>>>,
     <<<<11353384, -23>>, <<16382424, -24>>, <<14472685, -26>>>>,
     <<<<11408288, -23>>, <<16405754, -24>>, <<14043481, -26>>>>,
     <<<<11463191, -23>>, <<16428381, -24>>, <<13613685, -26>>>>,
     <<<<11499062, -23>>, <<16442784, -24>>, <<13332560, -26>>>>,
     <<<<11518094, -23>>, <<16450304, -24>>, <<13183304, -26>>>>,
     <<<<11572998, -23>>, <<16471523, -24>>, <<12752352, -26>>>>,
     <<<<11627901, -23>>, <<16492036, -24>>, <<12320861, -26>>>>,
     <<<<11744051, -23>>, <<16533103, -24>>, <<11406303, -26>>>>,
     <<<<11918493, -23>>, <<16588823, -24>>, <<10028706, -26>>>>,
     <<<<12337923, -23>>, <<16693398, -24>>, <<13399587, -27>>>>,
     <<<<12757354, -23>>, <<16756248, -24>>, <<13416508, -28>>>>,
     <<<<13002343, -23>>, <<16773588, -24>>, <<11164100, -29>>>>,
     <<<<13176784, -23>>, <<8388608, -23>>, <<11149847, -43>>>>,
     <<<<13421773, -23>>, <<16770062, -24>>, <<-15676387, -29>>>>,
     <<<<13596214, -23>>, <<16756250, -24>>, <<-13415828, -28>>>>,
     <<<<14015645, -23>>, <<16693402, -24>>, <<-13399248, -27>>>>,
     <<<<14435075, -23>>, <<16588829, -24>>, <<-10028538, -26>>>>,
     <<<<14854506, -23>>, <<16442793, -24>>, <<-13332393, -26>>>>,
     <<<<15273936, -23>>, <<16255658, -24>>, <<-16602916, -26>>>>,
     <<<<16532227, -23>>, <<15452848, -24>>, <<-13066671, -25>>>>,
     <<<<9104974, -22>>, <<13846847, -24>>, <<-9473110, -24>>>>,
     <<<<9734120, -22>>, <<12275717, -24>>, <<-11435985, -24>>>>,
     <<<<9943835, -22>>, <<11688815, -24>>, <<-12035223, -24>>>>,
     <<<<10153550, -22>>, <<11072697, -24>>, <<-12604379, -24>>>>,
     <<<<10782696, -22>>, <<9064786, -24>>, <<-14117529, -24>>>>,
     <<<<13299278, -22>>, <<-15675643, -29>>, <<-16770063, -24>>>>}

SinCos(angle) == CHOOSE r \in SinCosRows : r[1] = angle

sinf(angle) == SinCos(angle)[2]

cosf(angle) == SinCos(angle)[3]

-----------------------------------------------------------------------------
(* state *)

VARIABLES
    fPlayerX, fPlayerY, fPlayerA,  \* the player's pose (floats)
    screen,           \* the frame buffer, cell index -> glyph
    playerDirection,  \* main's local: the minimap glyph of the last frame
    pc,               \* "input" (top of the frame loop), "render" (the head
                      \* of RenderScene's for loop), "composite" (main after
                      \* RenderScene), "crashed"; "project" and "projected"
                      \* (before and after lines 125-153) in SpecShade
    ray,              \* RenderScene's locals for the column in hand
    log               \* history kept for the properties, never read by the program

vars == <<fPlayerX, fPlayerY, fPlayerA, screen, playerDirection, pc, ray, log>>

\* frames a run of the frame loop is followed for
MaxFrames == 3

ScreenCells == 0 .. (nScreenWidth * nScreenHeight - 1)

\* GetAsyncKeyState samples: the keys held down during a frame
KeyInputs ==
    {{}, {"VK_LEFT"}, {"VK_RIGHT"}, {"W"}, {"S"}, {"A"}, {"D"},
     {"VK_LEFT", "W"}, {"S", "D"}}

\* fElapsedTime samples: 1/16 s (a normal frame), 1/4 s and 1 s (stalls)
ElapsedInputs == {<<8388608, -27>>, <<8388608, -25>>, <<8388608, -23>>}

Ray0 ==
    [x |-> 0, fRayAngle |-> FZero, fEyeX |-> FZero, fEyeY |-> FZero,
     fDistanceToWall |-> FZero, bHitWall |-> FALSE, bBoundary |-> FALSE,
     nTestX |-> 0, nTestY |-> 0, nCeiling |-> 0, nFloor |-> 0, nShade |-> " "]

Log0 ==
    [nFrame |-> 0,          \* frames begun
     moves |-> <<>>,        \* the MovePlayer calls of the last frame
     bUndefined |-> FALSE,  \* an out-of-range map read or screen write happened
     nMarker |-> -1,        \* the screen index the direction glyph went to
     overlay |-> {},        \* screen indices the minimap code wrote, last frame
     nSteps |-> 0,          \* iterations of the while loop, this column
     nMapReads |-> 0,       \* map cells read by the while loop, this column
     bOutOfBounds |-> FALSE,\* the last sample was outside the map
     samples |-> <<>>,      \* the sampled cells, this column
     colsDone |-> <<>>,     \* the columns filled, this call of RenderScene
     colWrites |-> <<>>,    \* the screen writes of the last filled column
     boundaries |-> {FALSE},\* values bBoundary can take, by the order sort
                            \* leaves equidistant corners in
     prevSpan |-> -1]       \* nFloor - nCeiling of the column drawn before

-----------------------------------------------------------------------------
(* MovePlayer and the key handling of main *)

\* MovePlayer(x, y, angle, elapsedTime, forward): the set of outcomes, one
\* per value the map read can yield.  x and y are references: the outcome
\* carries their new values, with the record of the call.
MovePlayer(x, y, angle, elapsedTime, forward) ==
    LET moveStep == IF forward THEN fSpeed ELSE FNeg(fSpeed)
        dx  == FMul(FMul(sinf(angle), moveStep), elapsedTime)
        dy  == FMul(FMul(cosf(angle), moveStep), elapsedTime)
        x1  == FAdd(x, dx)
        y1  == FAdd(y, dy)
        idx == FToInt(y1) * nMapWidth + FToInt(x1)
    IN  { [x |-> IF c = "#" THEN FSub(x1, dx) ELSE x1,
           y |-> IF c = "#" THEN FSub(y1, dy) ELSE y1,
           x0 |-> x, y0 |-> y, dx |-> dx, dy |-> dy,
           nTestX |-> FToInt(x1), nTestY |-> FToInt(y1),
           idx |-> idx, cell |-> c] : c \in MapRead(idx) }

\* the pose during a frame's key handling
PoseRec(x, y, a, undefined) ==
    [x |-> x, y |-> y, a |-> a, moves |-> <<>>, bUndefined |-> undefined,
     crashed |-> FALSE]

Moved(p, m) ==
    [p EXCEPT !.x = m.x, !.y = m.y, !.moves = Append(@, m),
              !.bUndefined = @ \/ ~MapReadDefined(m.idx),
              !.crashed = m.cell = "crash"]

\* the keys of main's six `if (GetAsyncKeyState(k) & 0x8000) ...` lines, in
\* the order of the source
KeyOrder == <<"VK_LEFT", "VK_RIGHT", "W", "S", "A", "D">>

\* the angle a movement key passes to MovePlayer
MoveAngle(a, k) ==
    IF k = "A" THEN FSub(a, fHalfPi)
    ELSE IF k = "D" THEN FAdd(a, fHalfPi)
    ELSE a

\* the body of one key line
KeyEffect(p, k, fElapsedTime) ==
    IF p.crashed THEN {p}
    ELSE IF k = "VK_LEFT"
    THEN {[p EXCEPT !.a = FSub(p.a, FMul(fTurnSpeed, fElapsedTime))]}
    ELSE IF k = "VK_RIGHT"
    THEN {[p EXCEPT !.a = FAdd(p.a, FMul(fTurnSpeed, fElapsedTime))]}
    ELSE {Moved(p, m) :
            m \in MovePlayer(p.x, p.y, MoveAngle(p.a, k), fElapsedTime,
                             k # "S")}

\* the key lines from the i-th on, applied to the poses P
RECURSIVE HandleKeysFrom(_, _, _, _)
HandleKeysFrom(P, i, keys, fElapsedTime) ==
    IF i > Len(KeyOrder) THEN P
    ELSE HandleKeysFrom(
             IF KeyOrder[i] \in keys
             THEN UNION {KeyEffect(p, KeyOrder[i], fElapsedTime) : p \in P}
             ELSE P,
             i + 1, keys, fElapsedTime)

HandleKeys(p, keys, e) == HandleKeysFrom({p}, 1, keys, e)

\* top of the frame loop: the elapsed time is taken and the keys handled
Input(keys, fElapsedTime) ==
    /\ pc = "input"
    /\ log.nFrame < MaxFrames
    /\ \E p \in HandleKeys(PoseRec(fPlayerX, fPlayerY, fPlayerA, log.bUndefined),
                           keys, fElapsedTime) :
          /\ fPlayerX' = p.x
          /\ fPlayerY' = p.y
          /\ fPlayerA' = p.a
          /\ pc' = IF p.crashed THEN "crashed" ELSE "render"
          /\ log' = [log EXCEPT !.nFrame = @ + 1, !.moves = p.moves,
                                !.bUndefined = p.bUndefined]
    /\ ray' = Ray0
    /\ UNCHANGED <<screen, playerDirection>>

-----------------------------------------------------------------------------
(* the frame buffer: wchar_t screen[nScreenWidth * nScreenHeight], kept as  *)
(* the glyph that fills it (rest) and the cells that differ (cells)         *)

ScreenAt(s, i) == IF i \in DOMAIN s.cells THEN s.cells[i] ELSE s.rest

\* screen[i] = g for every <<i, g>> of ws, in order
RECURSIVE WriteAll(_, _, _)
WriteAll(s, ws, k) ==
    IF k > Len(ws) THEN s
    ELSE WriteAll([s EXCEPT !.cells = (ws[k][1] :> ws[k][2]) @@ @], ws, k + 1)

\* screen[i] = g for every <<i, g>> of the sequence ws, in order, at once:
\* a cell written twice keeps its last glyph
LastWrite(ws, i) ==
    CHOOSE k \in DOMAIN ws :
        ws[k][1] = i /\ \A j \in DOMAIN ws : j > k => ws[j][1] # i

Fill(s, ws) ==
    [s EXCEPT !.cells =
        [i \in {ws[k][1] : k \in DOMAIN ws} |-> ws[LastWrite(ws, i)][2]] @@ @]

-----------------------------------------------------------------------------
(* RenderScene *)

\* iterations of the while loop evaluated in one stretch
ChunkLen == 16

\* (fPlayerA - fFOV / 2.0f) + ((float)x / (float)nScreenWidth) * fFOV
RayAngle(a, x) ==
    FAdd(FSub(a, FDiv(fFOV, IntToF(2))),
         FMul(FDiv(IntToF(x), IntToF(nScreenWidth)), fFOV))

\* the pair (d, dot) of one corner; dot is 0/0, a NaN, when d is 0
CornerPair(fEyeX, fEyeY, vx, vy, d) ==
    IF d = FZero THEN [d |-> d, dot |-> "NaN"]
    ELSE [d |-> d,
          dot |-> FAdd(FDiv(FMul(fEyeX, vx), d), FDiv(FMul(fEyeY, vy), d))]

CornerVec(fEyeX, fEyeY, vx, vy) ==
    CornerPair(fEyeX, fEyeY, vx, vy, FSqrt(FAdd(FMul(vx, vx), FMul(vy, vy))))

\* the body of the tx, ty loops for one corner of the cell hit
Corner(r, nTestX, nTestY, tx, ty) ==
    CornerVec(r.fEyeX, r.fEyeY,
              FSub(FAdd(IntToF(nTestX), IntToF(tx)), fPlayerX),
              FSub(FAdd(IntToF(nTestY), IntToF(ty)), fPlayerY))

\* the vector p before the sort, in push_back order
Corners(r, nTestX, nTestY) ==
    <<Corner(r, nTestX, nTestY, 0, 0), Corner(r, nTestX, nTestY, 0, 1),
      Corner(r, nTestX, nTestY, 1, 0), Corner(r, nTestX, nTestY, 1, 1)>>

\* the orders sort may leave p in: ascending in d, equidistant corners in
\* any order
Sorted(p) ==
    {[i \in 1 .. 4 |-> p[f[i]]] :
        f \in {g \in [1 .. 4 -> 1 .. 4] :
                 /\ \A i, j \in 1 .. 4 : i # j => g[i] # g[j]
                 /\ \A i \in 1 .. 3 : FLe(p[g[i]].d, p[g[i + 1]].d)}}

\* acos(dot) < fBoundaryTolerance, 0.01f: acos is decreasing, its value is
\* below 0.01f from dot = 0.99994999 up to 1, and a NaN (compared false)
\* for a NaN and above 1
NearBoundary(dot) ==
    /\ dot # "NaN"
    /\ FLe(<<16776378, -24>>, dot)
    /\ FLe(dot, IntToF(1))

CheckWallBoundary(p) == \E i \in 1 .. 2 : NearBoundary(p[i].dot)

\* Test with a fault: the out-of-bounds branch keeps the distance travelled
TestUnpinned(m, d, nTestX, nTestY) ==
    IF nTestX < 0 \/ nTestX >= nMapWidth \/ nTestY < 0 \/ nTestY >= nMapHeight
    THEN [ray |-> [m.ray EXCEPT !.bHitWall = TRUE, !.fDistanceToWall = d,
                                !.nTestX = nTestX, !.nTestY = nTestY],
          log |-> [m.log EXCEPT !.nSteps = @ + 1, !.bOutOfBounds = TRUE,
                                !.samples = Append(@, <<d, nTestX, nTestY>>)]]
    ELSE IF map[nTestY * nMapWidth + nTestX + 1] = "#"
    THEN [ray |-> [m.ray EXCEPT !.bHitWall = TRUE, !.fDistanceToWall = d,
                                !.nTestX = nTestX, !.nTestY = nTestY],
          log |-> [m.log EXCEPT !.nSteps = @ + 1, !.nMapReads = @ + 1,
                                !.samples = Append(@, <<d, nTestX, nTestY>>),
                                !.boundaries =
                                    {CheckWallBoundary(p) :
                                       p \in Sorted(Corners(m.ray, nTestX, nTestY))}]]
    ELSE [ray |-> [m.ray EXCEPT !.fDistanceToWall = d,
                                !.nTestX = nTestX, !.nTestY = nTestY],
          log |-> [m.log EXCEPT !.nSteps = @ + 1, !.nMapReads = @ + 1,
                                !.samples = Append(@, <<d, nTestX, nTestY>>)]]

\* the three branches of the loop body, the sample being cell (nTestX,
\* nTestY) at distance d
Test(m, d, nTestX, nTestY) ==
    IF nTestX < 0 \/ nTestX >= nMapWidth \/ nTestY < 0 \/ nTestY >= nMapHeight
    THEN [ray |-> [m.ray EXCEPT !.bHitWall = TRUE, !.fDistanceToWall = fDepth,
                                !.nTestX = nTestX, !.nTestY = nTestY],
          log |-> [m.log EXCEPT !.nSteps = @ + 1, !.bOutOfBounds = TRUE,
                                !.samples = Append(@, <<d, nTestX, nTestY>>)]]
    ELSE IF map[nTestY * nMapWidth + nTestX + 1] = "#"
    THEN [ray |-> [m.ray EXCEPT !.bHitWall = TRUE, !.fDistanceToWall = d,
                                !.nTestX = nTestX, !.nTestY = nTestY],
          log |-> [m.log EXCEPT !.nSteps = @ + 1, !.nMapReads = @ + 1,
                                !.samples = Append(@, <<d, nTestX, nTestY>>),
                                !.boundaries =
                                    {CheckWallBoundary(p) :
                                       p \in Sorted(Corners(m.ray, nTestX, nTestY))}]]
    ELSE [ray |-> [m.ray EXCEPT !.fDistanceToWall = d,
                                !.nTestX = nTestX, !.nTestY = nTestY],
          log |-> [m.log EXCEPT !.nSteps = @ + 1, !.nMapReads = @ + 1,
                                !.samples = Append(@, <<d, nTestX, nTestY>>)]]

Sample(m, d) ==
    Test(m, d, FToInt(FAdd(fPlayerX, FMul(m.ray.fEyeX, d))),
               FToInt(FAdd(fPlayerY, FMul(m.ray.fEyeY, d))))

\* one iteration of the while loop: fDistanceToWall += 0.1f, then the sample
MarchStep(m) == Sample(m, FAdd(m.ray.fDistanceToWall, fStep))

\* Marching with a fault: the depth limit is left out of the loop condition
MarchingNoDepth(m) == ~m.ray.bHitWall

\* while (!bHitWall && fDistanceToWall < fDepth)
Marching(m) == ~m.ray.bHitWall /\ FLt(m.ray.fDistanceToWall, fDepth)

RECURSIVE MarchSteps(_, _)
MarchSteps(m, n) ==
    IF n = 0 \/ ~Marching(m) THEN m ELSE MarchSteps(MarchStep(m), n - 1)

\* the while loop
RECURSIVE March(_)
March(m) == IF Marching(m) THEN March(MarchSteps(m, ChunkLen)) ELSE m

\* int nCeiling = (nScreenHeight / 2.0f) - nScreenHeight / fDistanceToWall
Ceiling(fDistanceToWall) ==
    FToInt(FSub(FDiv(IntToF(nScreenHeight), IntToF(2)),
                FDiv(IntToF(nScreenHeight), fDistanceToWall)))

\* Floor with a fault: off by one row
FloorOffByOne(nCeiling) == nScreenHeight - nCeiling - 1

Floor(nCeiling) == nScreenHeight - nCeiling

\* Shade with a fault: the first comparison is strict like the others
ShadeStrict(fDistanceToWall, bBoundary) ==
    IF bBoundary THEN " "
    ELSE IF FLt(fDistanceToWall, FDiv(fDepth, IntToF(4))) THEN "0x2588"
    ELSE IF FLt(fDistanceToWall, FDiv(fDepth, IntToF(3))) THEN "0x2593"
    ELSE IF FLt(fDistanceToWall, FDiv(fDepth, IntToF(2))) THEN "0x2592"
    ELSE IF FLt(fDistanceToWall, fDepth) THEN "0x2591"
    ELSE " "

\* the wall glyph: 0x2588, 0x2593, 0x2592, 0x2591 or a space
Shade(fDistanceToWall, bBoundary) ==
    IF bBoundary THEN " "
    ELSE IF FLe(fDistanceToWall, FDiv(fDepth, IntToF(4))) THEN "0x2588"
    ELSE IF FLt(fDistanceToWall, FDiv(fDepth, IntToF(3))) THEN "0x2593"
    ELSE IF FLt(fDistanceToWall, FDiv(fDepth, IntToF(2))) THEN "0x2592"
    ELSE IF FLt(fDistanceToWall, fDepth) THEN "0x2591"
    ELSE " "

\* b = 1.0f - ((float)y - nScreenHeight / 2.0f) / (nScreenHeight / 2.0f);
\* b < 0.9, compared as doubles, is b <= 0.9f
FloorShadeOf(b) ==
    IF FLt(b, <<8388608, -25>>) THEN "#"
    ELSE IF FLt(b, <<8388608, -24>>) THEN "x"
    ELSE IF FLt(b, <<12582912, -24>>) THEN "."
    ELSE IF FLe(b, <<15099494, -24>>) THEN "~"
    ELSE " "

FloorShade(y) ==
    FloorShadeOf(FSub(IntToF(1),
                      FDiv(FSub(IntToF(y), FDiv(IntToF(nScreenHeight), IntToF(2))),
                           FDiv(IntToF(nScreenHeight), IntToF(2)))))

\* the writes of one iteration of the y loop
RowWrites(x, y, nCeiling, nFloor, nShade) ==
    IF y < nCeiling THEN <<<<y * nScreenWidth + x, " ">>>>
    ELSE IF y >= nCeiling /\ y < nFloor
    THEN <<<<y * nScreenWidth + x, nShade>>>>
    ELSE <<<<y * nScreenWidth + x, FloorShade(y)>>>>

\* the writes of the y loop from row y on
RECURSIVE ColumnWrites(_, _, _, _, _)
ColumnWrites(x, y, nCeiling, nFloor, nShade) ==
    IF y >= nScreenHeight THEN <<>>
    ELSE RowWrites(x, y, nCeiling, nFloor, nShade)
         \o ColumnWrites(x, y + 1, nCeiling, nFloor, nShade)

\* the rest of the column's iteration once the while loop has ended in m,
\* bBoundary being b
DrawWith(m, b, nCeiling, ws) ==
    /\ ray' = [m.ray EXCEPT !.x = @ + 1, !.bBoundary = b,
                            !.nCeiling = nCeiling, !.nFloor = Floor(nCeiling),
                            !.nShade = Shade(m.ray.fDistanceToWall, b)]
    /\ screen' = Fill(screen, ws)
    /\ log' = [m.log EXCEPT !.colsDone = Append(@, m.ray.x),
                            !.colWrites = [k \in DOMAIN ws |-> ws[k][1]],
                            !.prevSpan = IF log.colsDone = <<>> THEN -1
                                         ELSE ray.nFloor - ray.nCeiling]

Draw(m, b, nCeiling) ==
    DrawWith(m, b, nCeiling,
             ColumnWrites(m.ray.x, 0, nCeiling, Floor(nCeiling),
                          Shade(m.ray.fDistanceToWall, b)))

DrawColumn(m) ==
    \E b \in m.log.boundaries : Draw(m, b, Ceiling(m.ray.fDistanceToWall))

\* the locals of the column's iteration before the while loop
RayStart(x, fRayAngle) ==
    [ray |-> [Ray0 EXCEPT !.x = x, !.fRayAngle = fRayAngle,
                          !.fEyeX = sinf(fRayAngle), !.fEyeY = cosf(fRayAngle)],
     log |-> [log EXCEPT !.nSteps = 0, !.nMapReads = 0, !.bOutOfBounds = FALSE,
                         !.samples = <<>>, !.boundaries = {FALSE}]]

\* one iteration of the for loop over the columns
RenderColumn ==
    /\ pc = "render"
    /\ ray.x < nScreenWidth
    /\ DrawColumn(March(RayStart(ray.x, RayAngle(fPlayerA, ray.x))))
    /\ UNCHANGED <<fPlayerX, fPlayerY, fPlayerA, playerDirection, pc>>

\* the for loop ends and RenderScene returns
RenderReturn ==
    /\ pc = "render"
    /\ ray.x >= nScreenWidth
    /\ pc' = "composite"
    /\ UNCHANGED <<fPlayerX, fPlayerY, fPlayerA, screen, playerDirection, ray, log>>

-----------------------------------------------------------------------------
(* the minimap and the status line: main, after RenderScene *)

\* the if-chain that picks the minimap glyph from fmod(fPlayerA, 2 * 3.14159f)
PlayerDirection(a) ==
    LET angle     == FMod(a, fTwoPi)
        quarter   == FDiv(fPi, IntToF(4))
        negQuart  == FDiv(FNeg(fPi), IntToF(4))
        three     == FDiv(FMul(IntToF(3), fPi), IntToF(4))
        negThree  == FDiv(FMul(IntToF(-3), fPi), IntToF(4))
    IN  IF FLe(negQuart, angle) /\ FLt(angle, quarter) THEN "v"
        ELSE IF FLe(quarter, angle) /\ FLt(angle, three) THEN ">"
        ELSE IF FLe(three, angle) \/ FLt(angle, negThree) THEN "^"
        ELSE "<"

\* swprintf_s(screen, 40, ...): the status text, somewhere in the first 40
\* cells; its characters are not modelled
StatusLine(s) == [s EXCEPT !.cells = [i \in 0 .. 39 |-> "hud"] @@ @]

\* screen index of map cell (nx, ny) in the overlay
OverlayIndex(nx, ny) == (ny + 1) * nScreenWidth + nx

\* the writes of the two nested for loops copying the map onto the screen
OverlayWrites ==
    [c \in 0 .. (nMapWidth * nMapHeight - 1) |->
        LET nx == c \div nMapHeight
            ny == c % nMapHeight
        IN  <<OverlayIndex(nx, ny), map[ny * nMapWidth + nx + 1]>>]

OverlayCells == {OverlayWrites[c][1] : c \in DOMAIN OverlayWrites}

MinimapOverlay(s) ==
    [s EXCEPT !.cells =
        [i \in OverlayCells |->
            map[((i \div nScreenWidth) - 1) * nMapWidth + (i % nScreenWidth) + 1]]
        @@ @]

\* screen index the direction glyph is written to
MarkerIndex(x, y) == (FToInt(y) + 1) * nScreenWidth + FToInt(x)

\* the rest of a frame after RenderScene: status line, minimap, direction
\* glyph, terminator.  A marker index outside the buffer is a write through
\* a wild pointer: the buffer itself is left as it was.
Composite ==
    /\ pc = "composite"
    /\ LET dir    == PlayerDirection(fPlayerA)
           marker == MarkerIndex(fPlayerX, fPlayerY)
           s2     == MinimapOverlay(StatusLine(screen))
           s3     == IF marker \in ScreenCells
                     THEN WriteAll(s2, <<<<marker, dir>>>>, 1) ELSE s2
       IN  /\ playerDirection' = dir
           /\ screen' = WriteAll(s3, <<<<nScreenWidth * nScreenHeight - 1, "NUL">>>>, 1)
           /\ log' = [log EXCEPT !.nMarker = marker,
                                 !.overlay = OverlayCells \cup {marker},
                                 !.bUndefined = @ \/ marker \notin ScreenCells]
    /\ pc' = "input"
    /\ UNCHANGED <<fPlayerX, fPlayerY, fPlayerA, ray>>

\* RenderScene as the frame loop sees it: it returns, having written every
\* cell of the screen and nothing else (the glyphs are those of the column
\* loop below; here they are one token)
RenderSceneSummary ==
    /\ pc = "render"
    /\ screen' = [rest |-> "scene", cells |-> <<>>]
    /\ pc' = "composite"
    /\ UNCHANGED <<fPlayerX, fPlayerY, fPlayerA, playerDirection, ray, log>>

-----------------------------------------------------------------------------
(* the frame loop *)

\* after construction: the pose of lines 21-23, an uninitialised buffer
Init ==
    /\ fPlayerX = IntToF(8)
    /\ fPlayerY = IntToF(8)
    /\ fPlayerA = FZero
    /\ screen = [rest |-> "uninit", cells |-> <<>>]
    /\ playerDirection = "none"
    /\ pc = "input"
    /\ ray = Ray0
    /\ log = Log0

Frame == \E keys \in KeyInputs, e \in ElapsedInputs : Input(keys, e)

Next == Frame \/ RenderSceneSummary \/ Composite

Spec == Init /\ [][Next]_vars

-----------------------------------------------------------------------------
(* RenderScene column by column, from poses the frame loop reaches *)

\* key and elapsed-time inputs of the frames leading to each pose: none;
\* S for 1 s, A for 1.375 s, VK_RIGHT for 1.25 s; A for 1 s twice;
\* VK_LEFT for 2.95 s
RenderPaths ==
    {<<>>,
     <<<<{"S"}, <<8388608, -23>>>>, <<{"A"}, <<11534336, -23>>>>,
       <<{"VK_RIGHT"}, <<10485760, -23>>>>>>,
     <<<<{"A"}, <<8388608, -23>>>>, <<{"A"}, <<8388608, -23>>>>>>,
     <<<<{"VK_LEFT"}, <<12373197, -22>>>>>>}

\* the poses the key handling of the frames of path, from the i-th on, turns
\* the poses P into
RECURSIVE Replay(_, _, _)
Replay(P, path, i) ==
    IF i > Len(path) THEN P
    ELSE Replay(UNION {HandleKeys(p, path[i][1], path[i][2]) : p \in P},
                path, i + 1)

InitRender ==
    /\ \E path \in RenderPaths :
         \E p \in Replay({PoseRec(IntToF(8), IntToF(8), FZero, FALSE)}, path, 1) :
            /\ fPlayerX = p.x
            /\ fPlayerY = p.y
            /\ fPlayerA = p.a
            /\ log = [Log0 EXCEPT !.nFrame = Len(path) + 1]
    /\ screen = [rest |-> "uninit", cells |-> <<>>]
    /\ playerDirection = "none"
    /\ pc = "render"
    /\ ray = Ray0

NextRender == RenderColumn \/ RenderReturn \/ Composite

SpecRender == InitRender /\ [][NextRender]_vars

-----------------------------------------------------------------------------
(* the projection, shading and fill of a column, lines 125-153, at the      *)
(* distances the while loop passes through and at the shading thresholds    *)

\* distances a chain of steps starts from: one step; depth/4, depth/3,
\* depth/2 and depth, each with the floats next to it
DistanceInputs ==
    {fStep,
     <<16777215, -22>>, FDiv(fDepth, IntToF(4)), <<8388609, -21>>,
     <<11184810, -21>>, FDiv(fDepth, IntToF(3)), <<11184812, -21>>,
     <<16777215, -21>>, FDiv(fDepth, IntToF(2)), <<8388609, -20>>,
     <<16777215, -20>>, fDepth, <<8388609, -19>>}

InitShade ==
    /\ fPlayerX = IntToF(8)
    /\ fPlayerY = IntToF(8)
    /\ fPlayerA = FZero
    /\ screen = [rest |-> "uninit", cells |-> <<>>]
    /\ playerDirection = "none"
    /\ pc = "project"
    /\ \E d \in DistanceInputs : ray = [Ray0 EXCEPT !.fDistanceToWall = d]
    /\ \E b \in BOOLEAN : log = [Log0 EXCEPT !.boundaries = {b}]

\* lines 125-153 for the column in hand
ProjectColumn ==
    /\ pc = "project"
    /\ DrawColumn([ray |-> ray, log |-> log])
    /\ pc' = "projected"
    /\ UNCHANGED <<fPlayerX, fPlayerY, fPlayerA, playerDirection>>

\* the same column one step of the while loop farther: fDistanceToWall += 0.1f
StepDistance ==
    /\ pc = "projected"
    /\ FLt(ray.fDistanceToWall, fDepth)
    /\ ray' = [ray EXCEPT !.x = @ - 1,
                          !.fDistanceToWall = FAdd(@, fStep)]
    /\ pc' = "project"
    /\ UNCHANGED <<fPlayerX, fPlayerY, fPlayerA, screen, playerDirection, log>>

NextShade == ProjectColumn \/ StepDistance

SpecShade == InitShade /\ [][NextShade]_vars

-----------------------------------------------------------------------------
(* the minimap glyph at headings all round the circle, both ways *)

\* k * 3.14159f / 8 for k in -32 .. 32: two full turns, with the cardinal
\* headings and the sector boundaries
HeadingInputs == {FDiv(FMul(IntToF(k), fPi), IntToF(8)) : k \in -32 .. 32}

InitGlyph ==
    /\ fPlayerX = IntToF(8)
    /\ fPlayerY = IntToF(8)
    /\ fPlayerA \in HeadingInputs
    /\ screen = [rest |-> "uninit", cells |-> <<>>]
    /\ playerDirection = "none"
    /\ pc = "render"
    /\ ray = Ray0
    /\ log = [Log0 EXCEPT !.nFrame = 1]

NextGlyph == RenderSceneSummary \/ Composite

SpecGlyph == InitGlyph /\ [][NextGlyph]_vars

-----------------------------------------------------------------------------
(* properties *)

FAbs(a) == <<Abs(a[1]), a[2]>>

InMap(nx, ny) == nx >= 0 /\ nx < nMapWidth /\ ny >= 0 /\ ny < nMapHeight

CellAt(nx, ny) == map[ny * nMapWidth + nx + 1]

\* a position whose coordinates lie in [0, 16)
PositionInMap(x, y) ==
    /\ FLe(FZero, x) /\ FLt(x, IntToF(nMapWidth))
    /\ FLe(FZero, y) /\ FLt(y, IntToF(nMapHeight))

\* a column's while loop has run and its results are in ray and log
ColumnMarched == log.nSteps > 0

SampleInMap(sm) == InMap(sm[2], sm[3])

SampleOpen(sm) == SampleInMap(sm) /\ CellAt(sm[2], sm[3]) = "."

SampleWall(sm) == SampleInMap(sm) /\ CellAt(sm[2], sm[3]) = "#"

LastSample == log.samples[Len(log.samples)]

\* C1: whenever MovePlayer's displacement is smaller than one cell on both
\* axes and the destination cell is a Wall, the position after the call
\* equals the position before it.
C1_LosslessRevert ==
    \A k \in DOMAIN log.moves :
        LET m == log.moves[k]
        IN  (/\ FLt(FAbs(m.dx), IntToF(1))
             /\ FLt(FAbs(m.dy), IntToF(1))
             /\ InMap(m.nTestX, m.nTestY)
             /\ CellAt(m.nTestX, m.nTestY) = "#")
            => (m.x = m.x0 /\ m.y = m.y0)

\* C2: in every state the frame loop reaches from the initial pose without
\* an undefined map read, the player's integer cell is inside the 16x16 map
\* and is an Open cell.
C2_PlayerCellOpen ==
    (~log.bUndefined /\ pc # "crashed")
    => (/\ InMap(FToInt(fPlayerX), FToInt(fPlayerY))
        /\ CellAt(FToInt(fPlayerX), FToInt(fPlayerY)) = ".")

\* C3: a sample of a column's ray march that lies outside the map is the
\* last sample of the march; the distance reported is then fDepth (16.0)
\* exactly, the earlier samples were in-bounds Open cells, and the map was
\* read once for each earlier sample and not for this one.
C3_OutOfBoundsPinsDepth ==
    ColumnMarched =>
        \A i \in DOMAIN log.samples :
            ~SampleInMap(log.samples[i]) =>
                /\ i = Len(log.samples)
                /\ ray.bHitWall
                /\ ray.fDistanceToWall = fDepth
                /\ ray.fDistanceToWall # log.samples[i][1]
                /\ \A j \in 1 .. (i - 1) : SampleOpen(log.samples[j])
                /\ log.nMapReads = i - 1

\* a column's march ended on a sample outside the map, with the distance
\* travelled one step and no map read
C3_Witness ==
    /\ ColumnMarched
    /\ ~SampleInMap(LastSample)
    /\ LastSample[1] = fStep
    /\ ray.fDistanceToWall = fDepth
    /\ log.nMapReads = 0

\* C4: for a player position inside the map, when a column's ray march stops
\* on a Wall cell, the reported distance d is the sum of a positive number of
\* 0.1 steps with d <= fDepth, the cell sampled at d is a Wall, and every
\* earlier sample lay in an in-bounds Open cell.
C4_WallHitDistance ==
    (/\ ColumnMarched
     /\ PositionInMap(fPlayerX, fPlayerY)
     /\ ray.bHitWall
     /\ SampleInMap(LastSample))
    => (/\ SampleWall(LastSample)
        /\ ray.fDistanceToWall = LastSample[1]
        /\ log.samples[1][1] = fStep
        /\ \A j \in 1 .. (Len(log.samples) - 1) :
              /\ SampleOpen(log.samples[j])
              /\ log.samples[j + 1][1] = FAdd(log.samples[j][1], fStep)
        /\ FLt(FZero, ray.fDistanceToWall)
        /\ FLe(ray.fDistanceToWall, fDepth))

C6_CardinalGlyphs ==
    (pc = "input" /\ playerDirection # "none") =>
        /\ fPlayerA = FZero => playerDirection = "v"
        /\ fPlayerA = FDiv(fPi, IntToF(2)) => playerDirection = ">"
        /\ fPlayerA = fPi => playerDirection = "^"
        /\ fPlayerA = FDiv(FMul(IntToF(3), fPi), IntToF(2))
              => playerDirection = "<"

\* the heading brought into [0, 2 pi)
Normalized(a) ==
    IF FLt(FMod(a, fTwoPi), FZero) THEN FAdd(FMod(a, fTwoPi), fTwoPi)
    ELSE FMod(a, fTwoPi)

\* the glyph of the sector of width pi/2 centred on 0, pi/2, pi or 3 pi/2
\* that a heading n of [0, 2 pi) lies in
SectorGlyph(n) ==
    IF FLt(n, FDiv(fPi, IntToF(4)))
       \/ FLe(FDiv(FMul(IntToF(7), fPi), IntToF(4)), n) THEN "v"
    ELSE IF FLt(n, FDiv(FMul(IntToF(3), fPi), IntToF(4))) THEN ">"
    ELSE IF FLt(n, FDiv(FMul(IntToF(5), fPi), IntToF(4))) THEN "^"
    ELSE "<"

\* C8: once a frame is composited, the minimap glyph of the heading reached
\* by the turns so far is the glyph the code picks for that heading
\* normalized into [0, 2 pi), and is the glyph of the quarter-turn sector
\* centred on 0, pi/2, pi or 3 pi/2 that the heading lies in.
C8_GlyphOfNormalizedHeading ==
    (pc = "input" /\ playerDirection # "none") =>
        /\ playerDirection = PlayerDirection(Normalized(fPlayerA))
        /\ playerDirection = SectorGlyph(Normalized(fPlayerA))

\* screen indices of rows 1..16, columns 0..15
MinimapRegion ==
    {OverlayIndex(nx, ny) : nx \in 0 .. (nMapWidth - 1),
                            ny \in 0 .. (nMapHeight - 1)}

\* C9: after compositing, the screen region of rows 1..16 and columns 0..15
\* equals the map cell for cell except for the player's integer cell, which
\* lies in the region and holds the direction glyph; the minimap code wrote
\* no screen cell outside the region.
C9_MinimapRegion ==
    (pc = "input" /\ playerDirection # "none") =>
        /\ InMap(FToInt(fPlayerX), FToInt(fPlayerY))
        /\ \A nx \in 0 .. (nMapWidth - 1), ny \in 0 .. (nMapHeight - 1) :
              ScreenAt(screen, OverlayIndex(nx, ny)) =
                  IF nx = FToInt(fPlayerX) /\ ny = FToInt(fPlayerY)
                  THEN playerDirection
                  ELSE CellAt(nx, ny)
        /\ log.overlay \subseteq MinimapRegion

\* C7: a column's while loop ends after at most 160 iterations, with a hit
\* or with the distance at or past fDepth; it ends at the first sample that
\* is a Wall or outside the map, every earlier sample being an in-bounds
\* Open cell; the columns are processed in order, each once, and RenderScene
\* has returned only after all 120.
C7_MarchTerminates ==
    /\ log.nSteps <= 160
    /\ Len(log.samples) = log.nSteps
    /\ ColumnMarched =>
          /\ ray.bHitWall \/ ~FLt(ray.fDistanceToWall, fDepth)
          /\ ray.bHitWall <=> ~SampleOpen(LastSample)
          /\ \A j \in 1 .. (Len(log.samples) - 1) : SampleOpen(log.samples[j])
    /\ log.colsDone = [k \in 1 .. Len(log.colsDone) |-> k - 1]
    /\ Len(log.colsDone) <= nScreenWidth
    /\ ray.x = Len(log.colsDone)
    /\ pc # "render" => Len(log.colsDone) = nScreenWidth

\* a column whose march ran the full 160 steps without a hit
C7_Witness ==
    /\ log.nSteps = 160
    /\ ~ray.bHitWall
    /\ ~FLt(ray.fDistanceToWall, fDepth)

\* C10: for a column drawn at distance d, nCeiling + nFloor = nScreenHeight;
\* the wall height nFloor - nCeiling is no greater than it was at the
\* distance one step nearer; and the y loop wrote each of the column's 40
\* rows once.
C10_SpanSymmetricMonotone ==
    pc = "projected" =>
        /\ ray.nCeiling + ray.nFloor = nScreenHeight
        /\ log.prevSpan # -1 => ray.nFloor - ray.nCeiling <= log.prevSpan
        /\ Len(log.colWrites) = nScreenHeight
        /\ \A y \in 0 .. (nScreenHeight - 1) :
              Cardinality({k \in DOMAIN log.colWrites :
                             log.colWrites[k] = y * nScreenWidth + ray.x - 1}) = 1

\* a column drawn one step past another with a strictly shorter wall
C10_Witness ==
    /\ pc = "projected"
    /\ log.prevSpan # -1
    /\ ray.nFloor - ray.nCeiling < log.prevSpan
    /\ ray.nCeiling > 0

=============================================================================
